---- MODULE Spec2Model ----
(***************************************************************************)
(* A model of the mention-network pipeline of scripts/build_user_network.py *)
(* and scripts/visualize_network.py: mention extraction and edge           *)
(* aggregation (build_edge_counts), persistence (store_network) and the    *)
(* top-degree subgraph selection of make_plot.                             *)
(*                                                                         *)
(* Strings are sequences of one-character strings, so that lower(),        *)
(* str(), the mention regular expression and the composite _id are         *)
(* computed character by character.  A Python dict is the sequence of its  *)
(* items in insertion order.                                               *)
(***************************************************************************)
EXTENDS Naturals, Sequences, FiniteSets, TLC

VARIABLES
    \* build_edge_counts
    corpus,        \* the posts, in the order of PostList
    tweets,        \* the sequence build_edge_counts receives: a permutation of corpus
    ti,            \* number of posts the for loop has consumed
    edge_counts,   \* the dict (source, target) -> count, as items in insertion order
    seen_targets,  \* the targets already counted for the post last processed
    pcB,           \* "loop" | "done"
    \* store_network
    store,         \* the collection demo.user_network: documents in natural order
    run,           \* per process: the state of its store_network call
    prev,          \* per process: what its previous call was given and left behind
    lastw,         \* per _id: the latest upsert applied since the last delete_many
    \* make_plot
    G,             \* the input graph
    top_n,
    pcP,           \* "start" | "ranked" | "expanded" | "selected" | "empty"
    top_nodes,
    neighbors,
    H,
    \* main of visualize_network.py
    vis,           \* where main is, its exit status and the level of its last log
    \* the same weighted edges as G, inserted in another order
    Galt,
    \* build_graph_from_db
    loaded,        \* the graph last read back from the collection, and when
    \* TwitterClient.search_recent
    sr             \* the call: its arguments, the request it sends, its depth

buildVars == <<corpus, tweets, ti, edge_counts, seen_targets, pcB>>
storeVars == <<store, run, prev, lastw>>
plotVars  == <<G, top_n, pcP, top_nodes, neighbors, H>>
restVars  == <<vis, Galt, loaded, sr>>
vars      == <<buildVars, storeVars, plotVars, restVars>>

-----------------------------------------------------------------------------
(* Bounds of the model. *)

MaxTweets == 3      \* posts in a corpus
MaxRuns   == 3      \* store_network calls of one process, one after another
MaxEdges  == 3      \* edges of a graph handed to make_plot
MaxTopN   == 4      \* largest top_n tried
MaxRetryCount == 3  \* a retry count; the API rate-limits one request more than that

-----------------------------------------------------------------------------
(* Characters and strings. *)

UpperAlpha == <<"A","B","C","D","E","F","G","H","I","J","K","L","M",
                "N","O","P","Q","R","S","T","U","V","W","X","Y","Z">>
LowerAlpha == <<"a","b","c","d","e","f","g","h","i","j","k","l","m",
                "n","o","p","q","r","s","t","u","v","w","x","y","z">>
Digits     == <<"0","1","2","3","4","5","6","7","8","9">>

Range(s) == {s[i] : i \in DOMAIN s}

\* str.lower() on one character
LowerChar(c) ==
    IF c \in Range(UpperAlpha)
    THEN LowerAlpha[CHOOSE i \in DOMAIN UpperAlpha : UpperAlpha[i] = c]
    ELSE c

\* str.lower()
Lower(s) == [i \in DOMAIN s |-> LowerChar(s[i])]

\* the character class [A-Za-z0-9_]
WordChar(c) == c \in Range(UpperAlpha) \cup Range(LowerAlpha) \cup Range(Digits) \cup {"_"}

\* str(n) of a non-negative int
RECURSIVE Decimal(_)
Decimal(n) ==
    IF n < 10 THEN <<Digits[n + 1]>>
    ELSE Decimal(n \div 10) \o <<Digits[(n % 10) + 1]>>

\* the literal "username:"
UsernamePrefix == <<"u","s","e","r","n","a","m","e",":">>

\* the literal "__" of the composite _id
IdSeparator == <<"_","_">>

\* {1,15}: the longest handle the mention pattern takes
MaxHandle == 15

\* the length of the run of word characters of text starting at position i
RECURSIVE WordRun(_, _)
WordRun(text, i) ==
    IF i <= Len(text) /\ WordChar(text[i]) THEN 1 + WordRun(text, i + 1) ELSE 0

Min(a, b) == IF a <= b THEN a ELSE b
Max(a, b) == IF a >= b THEN a ELSE b

\* mention_re.findall(text) for mention_re = @([A-Za-z0-9_]{1,15}): the
\* non-overlapping matches left to right, each the greedy group after the @
RECURSIVE FindAllFrom(_, _)
FindAllFrom(text, i) ==
    IF i > Len(text) THEN <<>>
    ELSE IF text[i] = "@" /\ WordRun(text, i + 1) >= 1
         THEN LET n == Min(MaxHandle, WordRun(text, i + 1))
              IN  <<SubSeq(text, i + 1, i + n)>> \o FindAllFrom(text, i + n + 1)
         ELSE FindAllFrom(text, i + 1)

FindAll(text) == FindAllFrom(text, 1)

-----------------------------------------------------------------------------
(* Python values: None, a str, an int, a dict, a list element that is no dict. *)

None   == [k |-> "none"]
S(s)   == [k |-> "str", s |-> s]
I(n)   == [k |-> "int", n |-> n]

\* bool(v), as in "if not source", "if target_id", "a or b"
Truthy(v) ==
    CASE v.k = "none" -> FALSE
      [] v.k = "str"  -> v.s # <<>>
      [] v.k = "int"  -> v.n # 0
      [] OTHER        -> TRUE

\* str(v)
Str(v) ==
    CASE v.k = "str" -> v.s
      [] v.k = "int" -> Decimal(v.n)
      [] OTHER       -> <<"N","o","n","e">>

\* a or b
Or(a, b) == IF Truthy(a) THEN a ELSE b

-----------------------------------------------------------------------------
(* A dict as the sequence of its items <<key, value>> in insertion order. *)

Keys(d) == {d[i][1] : i \in DOMAIN d}

DictGet(d, key) ==
    IF key \in Keys(d)
    THEN d[CHOOSE i \in DOMAIN d : d[i][1] = key][2]
    ELSE 0

\* d[key] += 1 on a defaultdict(int)
DictInc(d, key) ==
    IF key \in Keys(d)
    THEN [i \in DOMAIN d |-> IF d[i][1] = key THEN <<key, d[i][2] + 1>> ELSE d[i]]
    ELSE Append(d, <<key, 1>>)

\* the mapping a dict denotes, whatever its insertion order
Items(d) == Range(d)

-----------------------------------------------------------------------------
(* Posts.  A post is [author_id, entities, text]; entities is None, a dict  *)
(* [k |-> "dict", mentions |-> <<...>>] or some other value; a mention is a *)
(* dict [k |-> "dict", id, username, screen_name] or some other value.      *)

Post(author, entities, text) == [author_id |-> author, entities |-> entities, text |-> text]
Entities(ms) == [k |-> "dict", mentions |-> ms]
Mention(id, username, screen_name) ==
    [k |-> "dict", id |-> id, username |-> username, screen_name |-> screen_name]

\* entities = t.get("entities") or {};
\* mentions = entities.get("mentions", []) if isinstance(entities, dict) else []
MentionsOf(t) == IF t.entities.k = "dict" THEN t.entities.mentions ELSE <<>>

\* text = t.get("text", "") or ""
TextOf(t) == IF Truthy(t.text) THEN t.text.s ELSE <<>>

\* the literal "numeric:", which the source never writes
NumericPrefix == <<"n","u","m","e","r","i","c",":">>

\* A faulty variant of MentionTarget, which writes an id as "numeric:<id>".
MentionTargetNumeric(m) ==
    IF m.k # "dict" THEN None
    ELSE LET target_id == m.id
             username  == Or(m.username, m.screen_name)
         IN  IF Truthy(target_id) THEN S(NumericPrefix \o Str(target_id))
             ELSE IF Truthy(username) THEN S(UsernamePrefix \o Lower(username.s))
             ELSE None

\* The target of one structured mention, or None where the loop continues
\* without one (not a dict; neither id nor handle).
MentionTarget(m) ==
    IF m.k # "dict" THEN None
    ELSE LET target_id == m.id
             username  == Or(m.username, m.screen_name)
         IN  IF Truthy(target_id) THEN S(Str(target_id))
             ELSE IF Truthy(username) THEN S(UsernamePrefix \o Lower(username.s))
             ELSE None

\* The target of one match of the mention pattern in the text.
TextTarget(match) == UsernamePrefix \o Lower(match)

\* A faulty variant of AddTarget, which counts a target again when it is already seen.
AddTargetNoDedup(st, source, target) ==
    [ec   |-> DictInc(st.ec, <<Str(source), target>>),
     seen |-> st.seen \cup {target}]

\* if target in seen_targets: continue
\* edge_counts[(str(source), target)] += 1; seen_targets.add(target)
AddTarget(st, source, target) ==
    IF target \in st.seen THEN st
    ELSE [ec   |-> DictInc(st.ec, <<Str(source), target>>),
          seen |-> st.seen \cup {target}]

\* for m in mentions: ...
RECURSIVE StructuredLoop(_, _, _, _)
StructuredLoop(st, source, mentions, i) ==
    IF i > Len(mentions) THEN st
    ELSE LET tg == MentionTarget(mentions[i])
         IN  StructuredLoop(IF tg = None THEN st ELSE AddTarget(st, source, tg.s),
                            source, mentions, i + 1)

\* for match in mention_re.findall(text): ...
RECURSIVE TextLoop(_, _, _, _)
TextLoop(st, source, matches, i) ==
    IF i > Len(matches) THEN st
    ELSE TextLoop(AddTarget(st, source, TextTarget(matches[i])), source, matches, i + 1)

\* A faulty variant of LoopBody, which keeps seen_targets from one post to the next.
LoopBodyKeepSeen(st, t) ==
    LET source == t.author_id
    IN  IF ~Truthy(source) THEN st
        ELSE TextLoop(StructuredLoop(st, source, MentionsOf(t), 1),
                      source, FindAll(TextOf(t)), 1)

\* A faulty variant of LoopBody, which does not skip a post without author.
LoopBodyNoSkip(st, t) ==
    LET source == t.author_id
        st0    == [ec |-> st.ec, seen |-> {}]
    IN  TextLoop(StructuredLoop(st0, source, MentionsOf(t), 1),
                 source, FindAll(TextOf(t)), 1)

\* One iteration of "for t in tweets", on the loop's state [ec, seen].
LoopBody(st, t) ==
    LET source == t.author_id
        st0    == [ec |-> st.ec, seen |-> {}]
    IN  IF ~Truthy(source) THEN st
        ELSE TextLoop(StructuredLoop(st0, source, MentionsOf(t), 1),
                      source, FindAll(TextOf(t)), 1)

RECURSIVE BuildFrom(_, _, _)
BuildFrom(st, tw, i) ==
    IF i > Len(tw) THEN st ELSE BuildFrom(LoopBody(st, tw[i]), tw, i + 1)

\* build_edge_counts(tweets), the dict it returns
BuildEdgeCounts(tw) == BuildFrom([ec |-> <<>>, seen |-> {}], tw, 1).ec

-----------------------------------------------------------------------------
(* The posts the model draws its corpora from. *)

Bob   == <<"B","o","b">>
BOB   == <<"B","O","B">>
A1    == <<"1">>
A2    == <<"2">>
Id42  == <<"4","2">>

\* {author_id: "1", text: "hello @Bob @bob"}
PostBobTwice ==
    Post(S(A1), None, S(<<"h","i"," ","@","B","o","b"," ","@","b","o","b">>))

\* {author_id: "1", entities: {mentions: [{id: "42"}]}}
PostId42 == Post(S(A1), Entities(<<Mention(S(Id42), None, None)>>), None)

\* the id twice (once as an int, with a handle), the handle again in the text
PostDupId ==
    Post(I(2), Entities(<<Mention(S(Id42), None, None), Mention(I(42), S(Bob), None)>>),
         S(<<"@","b","o","b","!">>))

\* handles only: username, an entry that is no dict, an entry with neither
\* id nor handle, an id of 0 with a screen_name
PostHandles ==
    Post(S(A2), Entities(<<Mention(None, S(Bob), None), S(Bob),
                           Mention(None, None, None), Mention(I(0), None, S(BOB))>>),
         S(<<"@","@","b","O","b">>))

\* no author attribution: author_id missing, empty, or 0
PostNoAuthor == Post(None, Entities(<<Mention(S(Id42), None, None)>>), S(<<"@","b","o","b">>))
PostEmptyAuthor == Post(S(<<>>), None, S(<<"@","B","o","b">>))

\* a handle holding "__", and an author id holding "__"
PostHandleSep == Post(S(A1), S(<<"x">>), S(<<"@","a","_","_","4","2">>))
PostAuthorSep ==
    Post(S(A1 \o IdSeparator \o UsernamePrefix \o <<"a">>),
         Entities(<<Mention(S(Id42), None, None)>>), None)

PostList ==
    <<PostBobTwice, PostId42, PostDupId, PostHandles, PostNoAuthor, PostEmptyAuthor,
      PostHandleSep, PostAuthorSep>>

SeqsUpTo(n, X) == UNION {[1..k -> X] : k \in 0..n}

Permutation(n) == {p \in [1..n -> 1..n] : \A i, j \in 1..n : p[i] = p[j] => i = j}

Permuted(tw, p) == [i \in DOMAIN tw |-> tw[p[i]]]

\* The corpora: up to MaxTweets posts of PostList, with repetitions, each
\* multiset of posts once, in the order of PostList. Every sequence of posts
\* is a permutation of one of them.
Corpora ==
    {[i \in DOMAIN s |-> PostList[s[i]]] :
        s \in {s \in SeqsUpTo(MaxTweets, DOMAIN PostList) :
                  \A i, j \in DOMAIN s : i < j => s[i] <= s[j]}}

-----------------------------------------------------------------------------
(* build_edge_counts as a state machine: one action per loop iteration. *)

InitBuildVars ==
    /\ corpus \in Corpora
    /\ \E p \in Permutation(Len(corpus)) : tweets = Permuted(corpus, p)
    /\ ti = 0
    /\ edge_counts = <<>>
    /\ seen_targets = {}
    /\ pcB = "loop"

IdleBuildVars ==
    /\ corpus = <<>>
    /\ tweets = <<>>
    /\ ti = 0
    /\ edge_counts = <<>>
    /\ seen_targets = {}
    /\ pcB = "done"

\* for t in tweets: <body>
Iterate ==
    /\ pcB = "loop"
    /\ ti < Len(tweets)
    /\ LET st == LoopBody([ec |-> edge_counts, seen |-> seen_targets], tweets[ti + 1])
       IN  /\ edge_counts' = st.ec
           /\ seen_targets' = st.seen
    /\ ti' = ti + 1
    /\ UNCHANGED <<corpus, tweets, pcB, storeVars, plotVars, restVars>>

\* return edge_counts
Return ==
    /\ pcB = "loop"
    /\ ti = Len(tweets)
    /\ pcB' = "done"
    /\ UNCHANGED <<corpus, tweets, ti, edge_counts, seen_targets, storeVars, plotVars, restVars>>

-----------------------------------------------------------------------------
(* The collection demo.user_network: a sequence of documents               *)
(* [_id, source, target, count] in natural (insertion) order.              *)

\* _id = f"{src}__{tgt}"
CompositeId(src, tgt) == src \o IdSeparator \o tgt

\* A faulty variant of DeleteMany, which deletes nothing.
DeleteManyNothing(coll) == coll

\* coll.delete_many({})
DeleteMany(coll) == <<>>

\* {"$set": fields} applied to a document
SetFields(doc, fields) ==
    [f \in DOMAIN doc \cup DOMAIN fields |-> IF f \in DOMAIN fields THEN fields[f] ELSE doc[f]]

\* A faulty variant of UpdateOne, which adds the count to the stored one ($inc).
UpdateOneInc(coll, id, fields) ==
    IF \E j \in DOMAIN coll : coll[j]._id = id
    THEN [j \in DOMAIN coll |->
            IF coll[j]._id = id
            THEN SetFields(coll[j], [fields EXCEPT !.count = coll[j].count + fields.count])
            ELSE coll[j]]
    ELSE Append(coll, SetFields([_id |-> id], fields))

\* A faulty variant of UpdateOne, which leaves an existing document alone ($setOnInsert).
UpdateOneInsertOnly(coll, id, fields) ==
    IF \E j \in DOMAIN coll : coll[j]._id = id
    THEN coll
    ELSE Append(coll, SetFields([_id |-> id], fields))

\* coll.update_one({"_id": id}, {"$set": fields}, upsert=True)
UpdateOne(coll, id, fields) ==
    IF \E j \in DOMAIN coll : coll[j]._id = id
    THEN [j \in DOMAIN coll |-> IF coll[j]._id = id THEN SetFields(coll[j], fields) ELSE coll[j]]
    ELSE Append(coll, SetFields([_id |-> id], fields))

\* the update document of one item ((src, tgt), w) of edge_counts
EdgeFields(item) == [source |-> item[1][1], target |-> item[1][2], count |-> item[2]]

EdgeId(item) == CompositeId(item[1][1], item[1][2])

\* the document one upsert of item leaves under its _id
EdgeDoc(item) == SetFields([_id |-> EdgeId(item)], EdgeFields(item))

\* The corpora whose aggregated edges the model persists: main() hands
\* store_network what build_edge_counts returned.
StoreCorpora ==
    { <<>>,
      <<PostId42>>,
      <<PostId42, PostId42, PostBobTwice>>,
      <<PostHandles, PostDupId>>,
      <<PostHandleSep, PostAuthorSep>> }

EdgeInputs == {BuildEdgeCounts(c) : c \in StoreCorpora}

Procs == {1, 2}

IdleRun ==
    [pc |-> "idle", edges |-> <<>>, clear |-> FALSE, i |-> 1, n |-> 0,
     logged |-> FALSE, err |-> FALSE, cleared |-> FALSE, store0 |-> <<>>]

NoPrev == [valid |-> FALSE, edges |-> <<>>, clear |-> FALSE, store |-> <<>>]

NoWrites == [id \in {} |-> 0]

InitStoreVars ==
    /\ store = <<>>
    /\ run = [p \in Procs |-> IdleRun]
    /\ prev = [p \in Procs |-> NoPrev]
    /\ lastw = NoWrites

\* store_network(mongo_uri, edge_counts, clear_existing) is called: the client
\* and the collection handle are made (no round trip to the store yet).
Start(p, maxRuns) ==
    /\ run[p].pc \in {"idle", "done"}
    /\ run[p].n < maxRuns
    /\ \E e \in EdgeInputs, c \in BOOLEAN :
         run' = [run EXCEPT ![p] =
                   [pc |-> "clear", edges |-> e, clear |-> c, i |-> 1, n |-> run[p].n + 1,
                    logged |-> FALSE, err |-> FALSE, cleared |-> FALSE, store0 |-> store]]
    /\ prev' = [prev EXCEPT ![p] =
                   IF run[p].pc = "done"
                   THEN [valid |-> TRUE, edges |-> run[p].edges, clear |-> run[p].clear,
                         store |-> store]
                   ELSE NoPrev]
    /\ UNCHANGED <<store, lastw, buildVars, plotVars, restVars>>

\* if clear_existing: coll.delete_many({})
ClearExisting(p) ==
    /\ run[p].pc = "clear"
    /\ IF run[p].clear
       THEN /\ store' = DeleteMany(store)
            /\ lastw' = NoWrites
            /\ run' = [run EXCEPT ![p].pc = "upsert", ![p].cleared = TRUE]
       ELSE /\ run' = [run EXCEPT ![p].pc = "upsert"]
            /\ UNCHANGED <<store, lastw>>
    /\ UNCHANGED <<prev, buildVars, plotVars, restVars>>

\* one iteration of "for (src, tgt), w in edge_counts.items()": one update_one
Upsert(p) ==
    /\ run[p].pc = "upsert"
    /\ run[p].i <= Len(run[p].edges)
    /\ LET item == run[p].edges[run[p].i]
       IN  /\ store' = UpdateOne(store, EdgeId(item), EdgeFields(item))
           /\ lastw' = [id \in DOMAIN lastw \cup {EdgeId(item)} |->
                          IF id = EdgeId(item) THEN [p |-> p, i |-> run[p].i] ELSE lastw[id]]
    /\ run' = [run EXCEPT ![p].i = run[p].i + 1]
    /\ UNCHANGED <<prev, buildVars, plotVars, restVars>>

\* logger.info("Stored %d edges ..."), and the call returns
Finish(p) ==
    /\ run[p].pc = "upsert"
    /\ run[p].i > Len(run[p].edges)
    /\ run' = [run EXCEPT ![p].pc = "done", ![p].logged = TRUE]
    /\ UNCHANGED <<store, prev, lastw, buildVars, plotVars, restVars>>

\* The state a store call of process p that raises leaves behind: the call
\* (delete_many or update_one) raises either before the store has applied it or
\* after (the acknowledgement is lost), and the exception ends the run.
FailureOutcome(p, applied) ==
    LET r    == run[p]
        item == r.edges[r.i]
    IN  IF ~applied
        THEN /\ run' = [run EXCEPT ![p].pc = "failed", ![p].err = TRUE]
             /\ UNCHANGED <<store, lastw>>
        ELSE IF r.pc = "clear"
        THEN /\ run' = [run EXCEPT ![p].pc = "failed", ![p].err = TRUE, ![p].cleared = TRUE]
             /\ store' = DeleteMany(store)
             /\ lastw' = NoWrites
        ELSE /\ run' = [run EXCEPT ![p].pc = "failed", ![p].err = TRUE, ![p].i = r.i + 1]
             /\ store' = UpdateOne(store, EdgeId(item), EdgeFields(item))
             /\ lastw' = [id \in DOMAIN lastw \cup {EdgeId(item)} |->
                            IF id = EdgeId(item) THEN [p |-> p, i |-> r.i] ELSE lastw[id]]

\* A faulty variant of Fail, which undoes the run's writes (a compensating rollback).
FailRollback(p) ==
    /\ \/ run[p].pc = "clear" /\ run[p].clear
       \/ run[p].pc = "upsert" /\ run[p].i <= Len(run[p].edges)
    /\ run' = [run EXCEPT ![p].pc = "failed", ![p].err = TRUE]
    /\ store' = run[p].store0
    /\ UNCHANGED <<prev, lastw, buildVars, plotVars, restVars>>

\* The store call about to be made (delete_many or update_one) raises: nothing
\* in store_network or main catches it, so the process ends with the traceback.
Fail(p) ==
    /\ \/ run[p].pc = "clear" /\ run[p].clear
       \/ run[p].pc = "upsert" /\ run[p].i <= Len(run[p].edges)
    /\ \E applied \in BOOLEAN : FailureOutcome(p, applied)
    /\ UNCHANGED <<prev, buildVars, plotVars, restVars>>

-----------------------------------------------------------------------------
(* Graphs: a networkx DiGraph as [nodes, edges], the nodes in insertion     *)
(* order, the edges <<u, v, weight>> in the order they were first added.    *)

EmptyGraph == [nodes |-> <<>>, edges |-> <<>>]

AddNode(nodes, u) == IF u \in Range(nodes) THEN nodes ELSE Append(nodes, u)

\* G.add_edge(u, v, weight=w): both nodes are added when new, and the edge's
\* weight is set (overwritten when the edge is there already)
AddEdge(g, u, v, w) ==
    [nodes |-> AddNode(AddNode(g.nodes, u), v),
     edges |-> IF \E j \in DOMAIN g.edges : g.edges[j][1] = u /\ g.edges[j][2] = v
               THEN [j \in DOMAIN g.edges |->
                       IF g.edges[j][1] = u /\ g.edges[j][2] = v THEN <<u, v, w>>
                       ELSE g.edges[j]]
               ELSE Append(g.edges, <<u, v, w>>)]

\* build_graph(edge_counts)
RECURSIVE BuildGraphFrom(_, _, _)
BuildGraphFrom(g, ec, i) ==
    IF i > Len(ec) THEN g
    ELSE BuildGraphFrom(AddEdge(g, ec[i][1][1], ec[i][1][2], ec[i][2]), ec, i + 1)

BuildGraph(ec) == BuildGraphFrom(EmptyGraph, ec, 1)

RECURSIVE SumSeq(_, _)
SumSeq(f, i) == IF i > Len(f) THEN 0 ELSE f[i] + SumSeq(f, i + 1)

\* G.degree(weight="weight") of node n: the weights of its out-edges plus those
\* of its in-edges (a self-loop counts on both sides)
WeightedDegree(g, n) ==
    SumSeq([j \in DOMAIN g.edges |->
              (IF g.edges[j][1] = n THEN g.edges[j][3] ELSE 0)
            + (IF g.edges[j][2] = n THEN g.edges[j][3] ELSE 0)], 1)

\* deg = dict(G.degree(weight="weight")): items in node order
Deg(g) == [j \in DOMAIN g.nodes |-> <<g.nodes[j], WeightedDegree(g, g.nodes[j])>>]

RemoveAt(seq, k) == [j \in 1..(Len(seq) - 1) |-> IF j < k THEN seq[j] ELSE seq[j + 1]]

\* sorted(items, key=lambda kv: kv[1], reverse=True): descending by value, and
\* stable, so items of equal value keep the order they had in items
RECURSIVE SortedDesc(_)
SortedDesc(items) ==
    IF items = <<>> THEN <<>>
    ELSE LET k == CHOOSE k \in DOMAIN items :
                    /\ \A j \in DOMAIN items : items[j][2] <= items[k][2]
                    /\ \A j \in 1..(k - 1) : items[j][2] < items[k][2]
         IN  <<items[k]>> \o SortedDesc(RemoveAt(items, k))

\* A faulty variant of Slice, which takes one item too few.
SliceShort(seq, n) == SubSeq(seq, 1, Min(IF n = 0 THEN 0 ELSE n - 1, Len(seq)))

\* seq[:n] for n >= 0
Slice(seq, n) == SubSeq(seq, 1, Min(n, Len(seq)))

Successors(g, n)   == {g.edges[j][2] : j \in {j \in DOMAIN g.edges : g.edges[j][1] = n}}
\* A faulty variant of Predecessors, which finds none (only successors expand).
PredecessorsNone(g, n) == {}

Predecessors(g, n) == {g.edges[j][1] : j \in {j \in DOMAIN g.edges : g.edges[j][2] = n}}

\* G.subgraph(sub_nodes).copy(): the nodes of sub_nodes and the edges of G
\* between them, with their weights
Subgraph(g, sub_nodes) ==
    LET KeepNode(n) == n \in sub_nodes
        KeepEdge(e) == e[1] \in sub_nodes /\ e[2] \in sub_nodes
    IN  [nodes |-> SelectSeq(g.nodes, KeepNode), edges |-> SelectSeq(g.edges, KeepEdge)]

\* The graphs make_plot is given: build_graph of an edge dict over NodeIds.
NodeIds == {<<"1">>, <<"2">>, <<"3">>}
Weights == {1, 2}

EdgeDicts ==
    {d \in SeqsUpTo(MaxEdges, (NodeIds \X NodeIds) \X Weights) :
        \A i, j \in DOMAIN d : d[i][1] = d[j][1] => i = j}

InitPlotVars ==
    /\ G \in {BuildGraph(d) : d \in EdgeDicts}
    /\ top_n = 0
    /\ pcP = "start"
    /\ top_nodes = <<>>
    /\ neighbors = {}
    /\ H = EmptyGraph

IdlePlotVars ==
    /\ G = EmptyGraph
    /\ top_n = 0
    /\ pcP = "idle"
    /\ top_nodes = <<>>
    /\ neighbors = {}
    /\ H = EmptyGraph

\* if G.number_of_nodes() == 0: logger.error(...) and return
EmptyReturn ==
    /\ pcP = "start"
    /\ Len(G.nodes) = 0
    /\ pcP' = "empty"
    /\ vis' = [vis EXCEPT !.level = "error"]
    /\ UNCHANGED <<G, top_n, top_nodes, neighbors, H, buildVars, storeVars, Galt, loaded, sr>>

\* deg = ...; top_nodes = sorted(deg.items(), ...)[:top_n]
RankNodes ==
    /\ pcP = "start"
    /\ Len(G.nodes) # 0
    /\ \E n \in 0..MaxTopN :
         /\ top_n' = n
         /\ top_nodes' = Slice(SortedDesc(Deg(G)), n)
    /\ pcP' = "ranked"
    /\ UNCHANGED <<G, neighbors, H, buildVars, storeVars, restVars>>

\* nodes_set = set(n for n, _ in top_nodes)
NodesSet == {top_nodes[j][1] : j \in DOMAIN top_nodes}

\* for n in list(nodes_set): neighbors.update(successors); neighbors.update(predecessors)
ExpandNeighbors ==
    /\ pcP = "ranked"
    /\ neighbors' = UNION {Successors(G, n) \cup Predecessors(G, n) : n \in NodesSet}
    /\ pcP' = "expanded"
    /\ UNCHANGED <<G, top_n, top_nodes, H, buildVars, storeVars, restVars>>

\* sub_nodes = list(nodes_set | neighbors); H = G.subgraph(sub_nodes).copy()
SelectSubgraph ==
    /\ pcP = "expanded"
    /\ H' = Subgraph(G, NodesSet \cup neighbors)
    /\ pcP' = "selected"
    /\ UNCHANGED <<G, top_n, top_nodes, neighbors, buildVars, storeVars, restVars>>

-----------------------------------------------------------------------------
(* The state of the parts a specification leaves alone. *)

IdleVis == [pc |-> "idle", exit |-> 0, level |-> "none"]

NotLoaded == [valid |-> FALSE, n |-> 0, pc |-> "idle", graph |-> EmptyGraph]

IdleSearch ==
    [pc |-> "idle", query |-> "", max_results |-> 0, next_token |-> None,
     params |-> {}, first |-> {}, depth |-> 0]

IdleRestVars ==
    /\ vis = IdleVis
    /\ Galt = EmptyGraph
    /\ loaded = NotLoaded
    /\ sr = IdleSearch

-----------------------------------------------------------------------------
(* visualize_network.py, main: the graph has been read (from the GEXF file,
   from the collection, or rebuilt from the tweets); main then either gives up
   or calls make_plot.  vis.exit is the exit status of the process and
   vis.level the level of the last message logged. *)

\* if G.number_of_nodes() == 0: logger.error(...); sys.exit(1)
MainNoData ==
    /\ vis.pc = "main"
    /\ Len(G.nodes) = 0
    /\ vis' = [pc |-> "exited", exit |-> 1, level |-> "error"]
    /\ UNCHANGED <<buildVars, storeVars, plotVars, Galt, loaded, sr>>

\* make_plot(G, args.out, top_n=args.top)
MainMakePlot ==
    /\ vis.pc = "main"
    /\ Len(G.nodes) # 0
    /\ vis' = [vis EXCEPT !.pc = "make_plot"]
    /\ pcP' = "start"
    /\ UNCHANGED <<G, top_n, top_nodes, neighbors, H, buildVars, storeVars, Galt, loaded, sr>>

\* make_plot has returned; main falls off its end and the process exits with 0
MainReturn ==
    /\ vis.pc = "make_plot"
    /\ pcP \in {"selected", "empty"}
    /\ vis' = [vis EXCEPT !.pc = "exited", !.exit = 0]
    /\ UNCHANGED <<buildVars, storeVars, plotVars, Galt, loaded, sr>>

\* the program is entered through main, or make_plot is called on its own
InitVisualizeVars ==
    /\ G \in {BuildGraph(d) : d \in EdgeDicts}
    /\ top_n = 0
    /\ top_nodes = <<>>
    /\ neighbors = {}
    /\ H = EmptyGraph
    /\ \E entry \in {"main", "make_plot"} :
         /\ vis = [pc |-> IF entry = "main" THEN "main" ELSE "idle", exit |-> 0, level |-> "none"]
         /\ pcP = IF entry = "main" THEN "idle" ELSE "start"
    /\ Galt = EmptyGraph
    /\ loaded = NotLoaded
    /\ sr = IdleSearch

-----------------------------------------------------------------------------
(* make_plot on two graphs of the same weighted edges.  build_graph and
   build_graph_from_db add the edges in the order the dict or the collection
   yields them, so the same edges can arrive in any order; Galt is G with its
   edges inserted in another order. *)

\* nodes_set of make_plot(g, top_n=n)
AnchorsOf(g, n) ==
    LET top == Slice(SortedDesc(Deg(g)), n)
    IN  {top[j][1] : j \in DOMAIN top}

\* H of make_plot(g, top_n=n)
SubgraphOf(g, n) ==
    LET anchors == AnchorsOf(g, n)
        nbrs    == UNION {Successors(g, a) \cup Predecessors(g, a) : a \in anchors}
    IN  Subgraph(g, anchors \cup nbrs)

InitPlotOrderVars ==
    /\ \E d \in EdgeDicts : \E p \in Permutation(Len(d)) :
         /\ G = BuildGraph(d)
         /\ Galt = BuildGraph(Permuted(d, p))
    /\ top_n = 0
    /\ pcP = "start"
    /\ top_nodes = <<>>
    /\ neighbors = {}
    /\ H = EmptyGraph
    /\ vis = IdleVis
    /\ loaded = NotLoaded
    /\ sr = IdleSearch

-----------------------------------------------------------------------------
(* visualize_network.py, build_graph_from_db: the graph read back from the
   collection.  loaded records the graph and, for the round trip, which call of
   store_network had been made and where it was when the collection was read. *)

\* for doc in coll.find(): src = str(doc.get("source")); tgt = str(doc.get("target"));
\* w = int(doc.get("count", 1)); G.add_edge(src, tgt, weight=w)
RECURSIVE BuildGraphFromDocs(_, _, _)
BuildGraphFromDocs(g, coll, i) ==
    IF i > Len(coll) THEN g
    ELSE LET doc == coll[i]
             src == Str(S(doc.source))
             tgt == Str(S(doc.target))
             w   == doc.count
         IN  BuildGraphFromDocs(AddEdge(g, src, tgt, w), coll, i + 1)

BuildGraphFromDb(coll) == BuildGraphFromDocs(EmptyGraph, coll, 1)

\* G = build_graph_from_db(mongo_uri), by a reader that is not a writer
LoadGraph ==
    /\ loaded' = [valid |-> TRUE, n |-> run[1].n, pc |-> run[1].pc,
                  graph |-> BuildGraphFromDb(store)]
    /\ UNCHANGED <<buildVars, storeVars, plotVars, vis, Galt, sr>>

-----------------------------------------------------------------------------
(* collect_tweets.py, TwitterClient.search_recent.  sr holds the arguments of
   the call, the parameters of the request it last sent (a dict, as a set of
   key/value pairs), those of the first request, and the depth of the
   recursion: the number of retries so far. *)

TWEET_FIELDS == "created_at,author_id,lang,public_metrics"

\* params = {...}; if next_token: params["next_token"] = next_token
Params(query, max_results, next_token) ==
    {<<"query", query>>,
     <<"max_results", Max(10, Min(100, max_results))>>,
     <<"tweet.fields", TWEET_FIELDS>>}
    \cup (IF Truthy(next_token) THEN {<<"next_token", next_token>>} ELSE {})

Queries == {"#python", "from:nasa"}
MaxResults == {1, 10, 50, 100, 101}
NextTokens == {None, S(<<>>), S(<<"b", "2", "6">>)}

InitSearchVars ==
    /\ \E q \in Queries, m \in MaxResults, t \in NextTokens :
         sr = [pc |-> "call", query |-> q, max_results |-> m, next_token |-> t,
               params |-> {}, first |-> {}, depth |-> 0]
    /\ vis = IdleVis
    /\ Galt = EmptyGraph
    /\ loaded = NotLoaded

\* resp = self.session.get(TWITTER_SEARCH_URL, params=params, timeout=20)
Get ==
    /\ sr.pc = "call"
    /\ LET params == Params(sr.query, sr.max_results, sr.next_token)
       IN  sr' = [sr EXCEPT !.pc = "get",
                            !.params = params,
                            !.first = IF sr.depth = 0 THEN params ELSE @]
    /\ UNCHANGED <<buildVars, storeVars, plotVars, vis, Galt, loaded>>

\* if resp.status_code == 429: logger.warning(...); time.sleep(60)
RateLimited ==
    /\ sr.pc = "get"
    /\ sr' = [sr EXCEPT !.pc = "sleep"]
    /\ UNCHANGED <<buildVars, storeVars, plotVars, vis, Galt, loaded>>

\* return self.search_recent(query, max_results=max_results, next_token=next_token)
\* The recursion has no counter; the guard only ends the exploration, after
\* the API has rate-limited MaxRetryCount + 1 requests in a row.
Retry ==
    /\ sr.pc = "sleep"
    /\ sr.depth <= MaxRetryCount
    /\ sr' = [sr EXCEPT !.pc = "call", !.depth = @ + 1]
    /\ UNCHANGED <<buildVars, storeVars, plotVars, vis, Galt, loaded>>

\* session.get raises (timeout, connection), or resp.raise_for_status() raises
RaiseForStatus ==
    /\ sr.pc = "get"
    /\ sr' = [sr EXCEPT !.pc = "raised"]
    /\ UNCHANGED <<buildVars, storeVars, plotVars, vis, Galt, loaded>>

\* return resp.json()
ReturnJson ==
    /\ sr.pc = "get"
    /\ sr' = [sr EXCEPT !.pc = "returned"]
    /\ UNCHANGED <<buildVars, storeVars, plotVars, vis, Galt, loaded>>

-----------------------------------------------------------------------------
(* Specifications. *)

\* build_edge_counts on one corpus
InitBuild == InitBuildVars /\ InitStoreVars /\ IdlePlotVars /\ IdleRestVars
NextBuild == Iterate \/ Return
SpecBuild == InitBuild /\ [][NextBuild]_vars

\* one process calling store_network again and again, no other writer
InitStore == IdleBuildVars /\ InitStoreVars /\ IdlePlotVars /\ IdleRestVars
NextPersist ==
    \/ Start(1, MaxRuns)
    \/ ClearExisting(1)
    \/ Upsert(1)
    \/ Finish(1)
    \/ Fail(1)
SpecPersist == InitStore /\ [][NextPersist]_vars

\* two processes, each calling store_network once, on the same collection
NextConcurrent ==
    \E p \in Procs :
        \/ Start(p, 1)
        \/ ClearExisting(p)
        \/ Upsert(p)
        \/ Finish(p)
        \/ Fail(p)
SpecConcurrent == InitStore /\ [][NextConcurrent]_vars

\* make_plot on one graph
InitPlot == IdleBuildVars /\ InitStoreVars /\ InitPlotVars /\ IdleRestVars
NextPlot ==
    \/ EmptyReturn
    \/ RankNodes
    \/ ExpandNeighbors
    \/ SelectSubgraph
SpecPlot == InitPlot /\ [][NextPlot]_vars

\* visualize_network.py run as a program, or make_plot called on its own
InitVisualize == IdleBuildVars /\ InitStoreVars /\ InitVisualizeVars
NextVisualize ==
    \/ MainNoData
    \/ MainMakePlot
    \/ MainReturn
    \/ EmptyReturn
    \/ RankNodes
    \/ ExpandNeighbors
    \/ SelectSubgraph
SpecVisualize == InitVisualize /\ [][NextVisualize]_vars

\* make_plot on one graph, beside the same edges inserted in another order
InitPlotOrder == IdleBuildVars /\ InitStoreVars /\ InitPlotOrderVars
SpecPlotOrder == InitPlotOrder /\ [][NextPlot]_vars

\* one process calling store_network again and again, and a reader of the
\* collection
NextRoundTrip ==
    \/ Start(1, MaxRuns)
    \/ ClearExisting(1)
    \/ Upsert(1)
    \/ Finish(1)
    \/ Fail(1)
    \/ LoadGraph
SpecRoundTrip == InitStore /\ [][NextRoundTrip]_vars

\* one call of search_recent, the API answering as it likes
InitSearch == IdleBuildVars /\ InitStoreVars /\ IdlePlotVars /\ InitSearchVars
NextSearch ==
    \/ Get
    \/ RateLimited
    \/ Retry
    \/ RaiseForStatus
    \/ ReturnJson
SpecSearch == InitSearch /\ [][NextSearch]_vars

-----------------------------------------------------------------------------
(* Properties of build_edge_counts (SpecBuild). *)

\* if not source: continue
HasAuthor(t) == Truthy(t.author_id)

\* The targets the extraction finds in one post, as a set: those of its
\* structured mentions and those of the handles in its text.
Extracted(t) ==
    {MentionTarget(m).s : m \in {m \in Range(MentionsOf(t)) : MentionTarget(m) # None}}
    \cup {TextTarget(h) : h \in Range(FindAll(TextOf(t)))}

\* The posts among the first n of tweets that source wrote and that mention target.
PostsMentioning(n, source, target) ==
    {i \in 1..n : /\ HasAuthor(tweets[i])
                  /\ Str(tweets[i].author_id) = source
                  /\ target \in Extracted(tweets[i])}

SourcesOf(n) == {Str(tweets[i].author_id) : i \in 1..n} \cup {k[1] : k \in Keys(edge_counts)}
TargetsOf(n) == UNION {Extracted(tweets[i]) : i \in 1..n} \cup {k[2] : k \in Keys(edge_counts)}

\* C1: after any number of posts, the weight of every (source, target) pair is
\* the number of posts processed so far that source wrote and in which target
\* is extracted at least once: one post adds at most 1 to a pair, however often
\* the target occurs in its mentions and text. A pair is a key only with a
\* weight of at least 1, and is a key once.
C1_WeightCountsPosts ==
    /\ \A s \in SourcesOf(ti), t \in TargetsOf(ti) :
         DictGet(edge_counts, <<s, t>>) = Cardinality(PostsMentioning(ti, s, t))
    /\ \A i, j \in DOMAIN edge_counts :
         /\ edge_counts[i][2] >= 1
         /\ edge_counts[i][1] = edge_counts[j][1] => i = j

\* C1 witness: two posts of author 2 that each name id 42 twice and @bob in
\* mention and text, and a post with @Bob @bob, have been counted.
C1_Witness ==
    /\ pcB = "done"
    /\ tweets = <<PostDupId, PostBobTwice, PostDupId>>
    /\ DictGet(edge_counts, <<A2, Id42>>) = 2
    /\ DictGet(edge_counts, <<A1, UsernamePrefix \o Lower(Bob)>>) = 1

\* C2: the mapping build_edge_counts returns for any permutation of a corpus
\* has the same (source, target) -> count entries as the one it returns for
\* the corpus itself.
C2_PermutationInvariant ==
    pcB = "done" => Items(edge_counts) = Items(BuildEdgeCounts(corpus))

\* C2 witness: a run over a permuted corpus whose dict comes out in another
\* insertion order than that of the corpus.
C2_Witness ==
    /\ pcB = "done"
    /\ tweets # corpus
    /\ Len(edge_counts) >= 2
    /\ edge_counts # BuildEdgeCounts(corpus)

AllDigits(s) == s # <<>> /\ \A i \in DOMAIN s : s[i] \in Range(Digits)

HasPrefix(s, pre) == Len(s) >= Len(pre) /\ SubSeq(s, 1, Len(pre)) = pre

C6_NoAuthorNoEdge ==
    edge_counts = BuildEdgeCounts(SelectSeq(SubSeq(tweets, 1, ti), HasAuthor))

\* C6 witness: a corpus with a post whose author_id is missing and one whose
\* author_id is empty, both with mentions, and some edge counted.
C6_Witness ==
    /\ pcB = "done"
    /\ \E i, j \in DOMAIN tweets : tweets[i] = PostNoAuthor /\ tweets[j] = PostEmptyAuthor
    /\ edge_counts # <<>>

-----------------------------------------------------------------------------
(* Properties of store_network with one writer (SpecPersist). *)

\* C3: a call that completes right after a completed call with the same edges
\* and the same clear_existing leaves the collection exactly as that call
\* left it, and each document it wrote holds the count of an edge, not a sum.
C3_PersistIdempotent ==
    (/\ run[1].pc = "done"
     /\ prev[1].valid
     /\ prev[1].edges = run[1].edges
     /\ prev[1].clear = run[1].clear) =>
        /\ store = prev[1].store
        /\ \A i \in DOMAIN run[1].edges :
             \E j \in DOMAIN store, i2 \in DOMAIN run[1].edges :
                /\ store[j]._id = EdgeId(run[1].edges[i])
                /\ store[j] = EdgeDoc(run[1].edges[i2])

\* C3 witness: the third call repeats the second, without clearing, over
\* documents an earlier call with other edges left behind.
C3_Witness ==
    /\ run[1].pc = "done"
    /\ run[1].n = 3
    /\ prev[1].valid
    /\ prev[1].edges = run[1].edges
    /\ ~prev[1].clear /\ ~run[1].clear
    /\ Len(run[1].edges) = 2
    /\ Len(store) > 2
    /\ \E j \in DOMAIN store : store[j].count = 2

\* C4 as stated: after a completed call every pair of edges has exactly one
\* document of its own, and distinct pairs have distinct composite ids.
C4_OneRecordPerPair ==
    run[1].pc = "done" =>
        /\ \A i \in DOMAIN run[1].edges :
             Cardinality({j \in DOMAIN store :
                            /\ store[j].source = run[1].edges[i][1][1]
                            /\ store[j].target = run[1].edges[i][1][2]}) = 1
        /\ \A i, j \in DOMAIN run[1].edges :
             EdgeId(run[1].edges[i]) = EdgeId(run[1].edges[j]) => i = j

\* C7 as stated: a completed call with the empty edge set, right after a
\* completed call with clear_existing, leaves the collection empty.
C7_EmptyAfterEmptyPersist ==
    (/\ run[1].pc = "done"
     /\ prev[1].valid
     /\ prev[1].clear
     /\ run[1].edges = <<>>) => store = <<>>

\* C7 amended: such a call leaves the collection empty when it is itself made
\* with clear_existing; without it (the default) it leaves the collection as
\* the first call left it, which is empty only when that call's edges were.
C7_EmptyPersistKeepsOrClears ==
    (/\ run[1].pc = "done"
     /\ prev[1].valid
     /\ prev[1].clear
     /\ run[1].edges = <<>>) =>
        IF run[1].clear
        THEN store = <<>>
        ELSE /\ store = prev[1].store
             /\ (store = <<>>) <=> (prev[1].edges = <<>>)

\* C7 witness: the empty edge set was persisted without clear_existing after a
\* clearing call with edges, and the collection is not empty.
C7_Witness ==
    /\ run[1].pc = "done"
    /\ prev[1].valid
    /\ prev[1].clear
    /\ prev[1].edges # <<>>
    /\ run[1].edges = <<>>
    /\ ~run[1].clear
    /\ store # <<>>

\* The collection after the first n upserts of a call r on what it found.
RECURSIVE UpsertsApplied(_, _, _)
UpsertsApplied(coll, edges, n) ==
    IF n = 0 THEN coll
    ELSE UpdateOne(UpsertsApplied(coll, edges, n - 1), EdgeId(edges[n]), EdgeFields(edges[n]))

\* C9: once a store call of store_network has raised, the call has ended
\* without the success log, none of its steps can be taken any more, and the
\* collection holds what the steps before the failure made of it: the clear,
\* if done, and the upserts issued so far, none undone.
C9_FailureKeepsWrites ==
    run[1].err =>
        /\ run[1].pc = "failed"
        /\ ~run[1].logged
        /\ ~ENABLED (ClearExisting(1) \/ Upsert(1) \/ Finish(1) \/ Start(1, MaxRuns))
        /\ store = UpsertsApplied(IF run[1].cleared THEN <<>> ELSE run[1].store0,
                                  run[1].edges, run[1].i - 1)

\* C9 witness: a call failed at its second upsert, after clearing a collection
\* that was not empty and writing its first edge.
C9_Witness ==
    /\ run[1].pc = "failed"
    /\ run[1].cleared
    /\ run[1].store0 # <<>>
    /\ run[1].i = 2
    /\ Len(run[1].edges) = 2
    /\ Len(store) = 1

-----------------------------------------------------------------------------
(* Properties of store_network with two writers (SpecConcurrent). *)

\* C8: at all times every document is, in full, the document of the one upsert
\* that wrote its _id last (its source, target and count are those of a single
\* item of a single call), every _id written since the last clear has exactly
\* one document, and so a key written by both calls ends with the later write.
C8_LastWriteWins ==
    /\ \A j \in DOMAIN store :
         /\ store[j]._id \in DOMAIN lastw
         /\ store[j] = EdgeDoc(run[lastw[store[j]._id].p].edges[lastw[store[j]._id].i])
    /\ \A j1, j2 \in DOMAIN store : store[j1]._id = store[j2]._id => j1 = j2
    /\ \A id \in DOMAIN lastw : \E j \in DOMAIN store : store[j]._id = id

\* C8 witness: both calls are done, neither cleared, and a key both wrote with
\* different counts was written last by process 1.
C8_Witness ==
    /\ run[1].pc = "done" /\ run[2].pc = "done"
    /\ ~run[1].clear /\ ~run[2].clear
    /\ \E id \in DOMAIN lastw :
         /\ lastw[id].p = 1
         /\ \E i \in DOMAIN run[2].edges :
              /\ EdgeId(run[2].edges[i]) = id
              /\ EdgeDoc(run[2].edges[i]) # EdgeDoc(run[1].edges[lastw[id].i])

-----------------------------------------------------------------------------
(* Properties of make_plot (SpecPlot). *)

\* C10: for a graph with nodes and a top_n of at least its node count, the
\* selected subgraph has every node and every weighted edge of the graph.
C10_TopNCoversGraph ==
    (pcP = "selected" /\ top_n >= Len(G.nodes)) =>
        /\ Range(H.nodes) = Range(G.nodes)
        /\ Range(H.edges) = Range(G.edges)

\* C10 witness: a subgraph was selected from a graph of three nodes and three
\* edges with top_n equal to the node count.
C10_Witness ==
    /\ pcP = "selected"
    /\ Len(G.nodes) = 3
    /\ Len(G.edges) = 3
    /\ top_n = 3
    /\ Len(H.edges) = 3

\* The nodes one edge away from a, in either direction.
Adjacent(g, a) ==
    {v \in Range(g.nodes) :
        \E e \in Range(g.edges) : (e[1] = a /\ e[2] = v) \/ (e[2] = a /\ e[1] = v)}

\* C11: for a graph with nodes and top_n >= 1, the anchors are top_n nodes (all
\* of them when there are fewer) of weighted degree no less than any other
\* node's; the subgraph's nodes are exactly the anchors and the nodes one edge
\* away from an anchor, so every anchor is there and no node farther than one
\* hop from every anchor is; its edges are exactly the graph's edges between
\* its nodes.
C11_AnchorsAndOneHop ==
    (pcP = "selected" /\ top_n >= 1) =>
        LET anchors == NodesSet
            hood    == UNION {Adjacent(G, a) : a \in anchors}
        IN  /\ Cardinality(anchors) = Min(top_n, Len(G.nodes))
            /\ \A a \in anchors, b \in Range(G.nodes) \ anchors :
                 WeightedDegree(G, a) >= WeightedDegree(G, b)
            /\ Range(H.nodes) = anchors \cup hood
            /\ anchors \subseteq Range(H.nodes)
            /\ Range(H.edges) =
                 {e \in Range(G.edges) : e[1] \in Range(H.nodes) /\ e[2] \in Range(H.nodes)}
            /\ \A v \in Range(G.nodes) :
                 (v \notin anchors /\ \A a \in anchors : v \notin Adjacent(G, a)) =>
                    v \notin Range(H.nodes)

\* C11 witness: with one anchor, a predecessor of the anchor is selected and a
\* node two hops from the anchor is left out, with its edge.
C11_Witness ==
    /\ pcP = "selected"
    /\ top_n = 1
    /\ Len(H.nodes) = 2
    /\ \E a \in NodesSet : Predecessors(G, a) \ {a} # {}
    /\ \E v \in Range(G.nodes) \ Range(H.nodes) :
         \E u \in Range(H.nodes) \ NodesSet : v \in Adjacent(G, u)
    /\ Len(H.edges) < Len(G.edges)


\* C12: an empty graph is not an error.  make_plot on a graph with no nodes
\* ranks nothing, selects nothing and returns; and a run of the program on an
\* empty graph ends as a normal run does: exit status 0, nothing logged at
\* error level.
C12_EmptyIsNotAnError ==
    /\ (pcP = "empty" =>
            /\ Len(G.nodes) = 0
            /\ top_nodes = <<>>
            /\ neighbors = {}
            /\ H = EmptyGraph)
    /\ ((vis.pc = "exited" /\ Len(G.nodes) = 0) =>
            /\ vis.exit = 0
            /\ vis.level # "error")


\* C13: on a 429, search_recent waits and sends the identical request again
\* (same query, max_results and next_token), and it retries at most a maximum
\* number of times, so a call that is rate-limited every time still ends.
C13_RetryIdenticalAndBounded ==
    /\ (sr.pc \in {"get", "sleep", "raised", "returned"} => sr.params = sr.first)
    /\ sr.depth <= MaxRetryCount


\* C14: anchor selection depends on the graph's content only.  Two graphs with
\* the same weighted edges, inserted in different orders, get the same anchor
\* set and the same subgraph from make_plot, for every top_n, ties on weighted
\* degree at the cut included.
C14_AnchorsIgnoreInsertionOrder ==
    (pcP = "selected" /\ Range(Galt.edges) = Range(G.edges)) =>
        /\ NodesSet = AnchorsOf(Galt, top_n)
        /\ Range(H.nodes) = Range(SubgraphOf(Galt, top_n).nodes)
        /\ Range(H.edges) = Range(SubgraphOf(Galt, top_n).edges)


\* C15: persist/load round trip.  When store_network(edges, clear_existing=True)
\* has completed, on whatever the store held before and with no other writer,
\* build_graph_from_db returns the nodes, edges and weights of
\* build_graph(edges): no edge missing, added or re-weighted.
C15_RoundTrip ==
    (/\ loaded.valid
     /\ loaded.pc = "done"
     /\ run[1].pc = "done"
     /\ loaded.n = run[1].n
     /\ run[1].clear) =>
        /\ Range(loaded.graph.edges) = Range(BuildGraph(run[1].edges).edges)
        /\ Range(loaded.graph.nodes) = Range(BuildGraph(run[1].edges).nodes)

====
